---------------------------- MODULE Spec2Model ----------------------------
(***************************************************************************)
(* A model of scripts/snap-diff/rewrite.js: rewriteRolldown (parse, one    *)
(* acorn-walk traversal with three visitors, generate, line filter) and    *)
(* rewriteEsbuild (parse, generate).                                       *)
(*                                                                         *)
(* Source text is a sequence of lines; a line is its leading indentation   *)
(* (in indentation units) and its tokens.  Spacing inside a line is not    *)
(* modelled: the generator derives it from the tokens alone.  The parser   *)
(* and the generator cover the statement and expression forms the three    *)
(* visitors can tell apart: import declarations, expression statements     *)
(* (directives included), empty statements, blocks, function declarations, *)
(* calls, member accesses (computed or not), identifiers, this, string and *)
(* number literals, parenthesised expressions.                             *)
(***************************************************************************)
EXTENDS Integers, Sequences, FiniteSets, TLC

(***************************************************************************)
(* Bounds of the explored inputs.                                          *)
(***************************************************************************)
MaxStmts == 2
MaxArgs == 3
MaxPasses == 2

(***************************************************************************)
(* Tokens and lines.                                                       *)
(***************************************************************************)
Name(v) == [type |-> "name", value |-> v, quote |-> ""]
Kw(v) == [type |-> "keyword", value |-> v, quote |-> ""]
Punc(v) == [type |-> "punc", value |-> v, quote |-> ""]
Num(v) == [type |-> "num", value |-> v, quote |-> ""]
Str(q, v) == [type |-> "string", value |-> v, quote |-> q]

DQ == "\""
SQ == "'"

Line(ind, toks) == [ind |-> ind, toks |-> toks]

RECURSIVE Flatten(_)
\* The token stream of a text: line breaks and indentation are white space.
Flatten(text) ==
    IF text = <<>> THEN <<>> ELSE Head(text).toks \o Flatten(Tail(text))

(***************************************************************************)
(* JavaScript values that the visitors compare: a tag (typeof) and a       *)
(* representation.                                                         *)
(***************************************************************************)
JSString(s) == <<"string", s>>
JSNumber(s) == <<"number", s>>
Undefined == <<"undefined", "">>

\* The value of a numeric token, as its canonical decimal representation.
NumberValue(raw) ==
    CASE raw = "0x2A" -> "42"
      [] raw = "1.0" -> "1"
      [] OTHER -> raw

(***************************************************************************)
(* acorn.parse(code, {ecmaVersion: 'latest', sourceType: 'module'}).       *)
(* Every parse operator returns [node, pos] (or [list, pos]): what it      *)
(* parsed and the index of the next token.                                 *)
(***************************************************************************)
IsTok(input, pos, type, value) ==
    /\ pos <= Len(input)
    /\ input[pos].type = type
    /\ input[pos].value = value

ParseFailure == [type |-> "SyntaxError"]

RECURSIVE parseExprAtom(_, _)
RECURSIVE parseSubscripts(_, _, _)
RECURSIVE parseExprList(_, _, _)
RECURSIVE parseStatement(_, _)
RECURSIVE parseBlockBody(_, _, _)

parseExpression(input, pos) ==
    LET atom == parseExprAtom(input, pos)
    IN  parseSubscripts(input, atom.pos, atom.node)

parseExprAtom(input, pos) ==
    LET tok == input[pos]
    IN  CASE tok.type = "name" ->
               [node |-> [type |-> "Identifier", name |-> tok.value],
                pos |-> pos + 1]
          [] tok.type = "num" ->
               [node |-> [type |-> "Literal",
                          value |-> JSNumber(NumberValue(tok.value)),
                          raw |-> <<tok.value>>],
                pos |-> pos + 1]
          [] tok.type = "string" ->
               [node |-> [type |-> "Literal",
                          value |-> JSString(tok.value),
                          raw |-> <<tok.quote, tok.value, tok.quote>>],
                pos |-> pos + 1]
          [] tok.type = "keyword" /\ tok.value = "this" ->
               [node |-> [type |-> "ThisExpression"], pos |-> pos + 1]
          [] tok.type = "punc" /\ tok.value = "(" ->
               \* preserveParens is off: the inner expression is returned.
               LET inner == parseExpression(input, pos + 1)
               IN  [node |-> inner.node, pos |-> inner.pos + 1]
          [] OTHER -> [node |-> ParseFailure, pos |-> Len(input) + 1]

parseSubscripts(input, pos, base) ==
    IF IsTok(input, pos, "punc", ".")
    THEN parseSubscripts(input, pos + 2,
             [type |-> "MemberExpression", object |-> base,
              property |-> [type |-> "Identifier",
                            name |-> input[pos + 1].value],
              computed |-> FALSE])
    ELSE IF IsTok(input, pos, "punc", "[")
    THEN LET prop == parseExpression(input, pos + 1)
         IN  parseSubscripts(input, prop.pos + 1,
                 [type |-> "MemberExpression", object |-> base,
                  property |-> prop.node, computed |-> TRUE])
    ELSE IF IsTok(input, pos, "punc", "(")
    THEN LET args == parseExprList(input, pos + 1, <<>>)
         IN  parseSubscripts(input, args.pos,
                 [type |-> "CallExpression", callee |-> base,
                  arguments |-> args.list])
    ELSE [node |-> base, pos |-> pos]

\* The arguments up to and including the closing parenthesis.
parseExprList(input, pos, acc) ==
    IF IsTok(input, pos, "punc", ")")
    THEN [list |-> acc, pos |-> pos + 1]
    ELSE IF IsTok(input, pos, "punc", ",")
    THEN parseExprList(input, pos + 1, acc)
    ELSE LET arg == parseExpression(input, pos)
         IN  parseExprList(input, arg.pos, Append(acc, arg.node))

\* The statement is a string literal that starts at a quote (a parenthesised
\* string is no directive).
isDirectiveCandidate(input, statement) ==
    /\ statement.type = "ExpressionStatement"
    /\ statement.expression.type = "Literal"
    /\ statement.expression.value[1] = "string"
    /\ input[statement.start].type = "string"

RECURSIVE adaptDirectivePrologue(_, _)
\* The leading run of candidates gets directive = raw.slice(1, -1).
adaptDirectivePrologue(input, statements) ==
    IF statements # <<>> /\ isDirectiveCandidate(input, Head(statements))
    THEN <<Head(statements) @@
            [directive |->
                JSString(Head(statements).expression.raw[2])]>>
         \o adaptDirectivePrologue(input, Tail(statements))
    ELSE statements

parseImport(input, pos) ==
    IF input[pos + 1].type = "string"
    THEN [node |-> [type |-> "ImportDeclaration", start |-> pos,
                    specifiers |-> <<>>,
                    source |-> parseExprAtom(input, pos + 1).node],
          pos |-> pos + 3]
    ELSE [node |-> [type |-> "ImportDeclaration", start |-> pos,
                    specifiers |->
                        <<[type |-> "ImportDefaultSpecifier",
                           local |-> [type |-> "Identifier",
                                      name |-> input[pos + 1].value]]>>,
                    source |-> parseExprAtom(input, pos + 3).node],
          pos |-> pos + 5]

parseStatement(input, pos) ==
    IF IsTok(input, pos, "keyword", "import")
    THEN parseImport(input, pos)
    ELSE IF IsTok(input, pos, "punc", ";")
    THEN [node |-> [type |-> "EmptyStatement", start |-> pos],
          pos |-> pos + 1]
    ELSE IF IsTok(input, pos, "punc", "{")
    THEN LET body == parseBlockBody(input, pos + 1, <<>>)
         IN  [node |-> [type |-> "BlockStatement", start |-> pos,
                        body |-> body.list],
              pos |-> body.pos]
    ELSE IF IsTok(input, pos, "keyword", "function")
    THEN \* function id ( ) { body }: the body is a directive context
         LET body == parseBlockBody(input, pos + 5, <<>>)
         IN  [node |-> [type |-> "FunctionDeclaration", start |-> pos,
                        id |-> [type |-> "Identifier",
                                name |-> input[pos + 1].value],
                        params |-> <<>>,
                        body |-> [type |-> "BlockStatement",
                                  start |-> pos + 4,
                                  body |-> adaptDirectivePrologue(input,
                                                                  body.list)]],
              pos |-> body.pos]
    ELSE LET expr == parseExpression(input, pos)
         IN  [node |-> [type |-> "ExpressionStatement", start |-> pos,
                        expression |-> expr.node],
              pos |-> expr.pos + 1]

\* The statements up to and including the closing brace.
parseBlockBody(input, pos, acc) ==
    IF IsTok(input, pos, "punc", "}")
    THEN [list |-> acc, pos |-> pos + 1]
    ELSE LET stmt == parseStatement(input, pos)
         IN  parseBlockBody(input, stmt.pos, Append(acc, stmt.node))

RECURSIVE parseTopLevel(_, _, _)
parseTopLevel(input, pos, acc) ==
    IF pos > Len(input)
    THEN [type |-> "Program", start |-> 1,
          body |-> adaptDirectivePrologue(input, acc)]
    ELSE LET stmt == parseStatement(input, pos)
         IN  parseTopLevel(input, stmt.pos, Append(acc, stmt.node))

parse(code) == parseTopLevel(Flatten(code), 1, <<>>)

(***************************************************************************)
(* walk.simple(ast, visitors): the base walker visits a node's children    *)
(* first and then calls the visitor registered for the node's type.  A     *)
(* path is the sequence of steps <<field, index>> from the root to a node  *)
(* (index 0 for a field that holds one node).                              *)
(***************************************************************************)
Steps(field, n) == [i \in 1..n |-> <<field, i>>]

\* The children the base visitor of the node's type walks, in its order.
Children(node) ==
    CASE node.type \in {"Program", "BlockStatement"} ->
           Steps("body", Len(node.body))
      [] node.type = "FunctionDeclaration" -> << <<"id", 0>>, <<"body", 0>> >>
      [] node.type = "ExpressionStatement" -> << <<"expression", 0>> >>
      [] node.type = "ImportDeclaration" ->
           Steps("specifiers", Len(node.specifiers)) \o << <<"source", 0>> >>
      [] node.type = "CallExpression" ->
           << <<"callee", 0>> >> \o Steps("arguments", Len(node.arguments))
      [] node.type = "MemberExpression" ->
           IF node.computed
           THEN << <<"object", 0>>, <<"property", 0>> >>
           ELSE << <<"object", 0>> >>
      [] OTHER -> <<>>

Child(node, step) ==
    IF step[2] = 0 THEN node[step[1]] ELSE node[step[1]][step[2]]

RECURSIVE NodeAt(_, _)
NodeAt(node, path) ==
    IF path = <<>> THEN node ELSE NodeAt(Child(node, Head(path)), Tail(path))

RECURSIVE Replace(_, _, _)
\* The tree with the node at path replaced (the visitor's in-place mutation).
Replace(node, path, new) ==
    IF path = <<>> THEN new
    ELSE LET step == Head(path)
             sub == Replace(Child(node, step), Tail(path), new)
         IN  IF step[2] = 0
             THEN [node EXCEPT ![step[1]] = sub]
             ELSE [node EXCEPT ![step[1]][step[2]] = sub]

RECURSIVE PostOrder(_)
RECURSIVE PostOrderFrom(_, _)
\* The paths of the node's descendants and then of the node itself.
PostOrder(node) == PostOrderFrom(node, Children(node)) \o << <<>> >>

PostOrderFrom(node, steps) ==
    IF steps = <<>> THEN <<>>
    ELSE LET below == PostOrder(Child(node, Head(steps)))
         IN  [i \in 1..Len(below) |-> <<Head(steps)>> \o below[i]]
             \o PostOrderFrom(node, Tail(steps))

VisitorTypes == {"ImportDeclaration", "ExpressionStatement", "CallExpression"}

\* The visits of one traversal that reach a registered visitor, in order.
Visits(tree) ==
    SelectSeq(PostOrder(tree), LAMBDA p : NodeAt(tree, p).type \in VisitorTypes)

(***************************************************************************)
(* The three visitors of rewriteRolldown.  Each returns the node as the    *)
(* visitor leaves it.                                                      *)
(***************************************************************************)
sourceList == {JSString("assert"), JSString("node:assert")}

\* A variant that knows the bare module name only.
ImportDeclaration_BareNameOnly(node) ==
    IF node.source.value = JSString("assert")
    THEN [node EXCEPT !.type = "EmptyStatement"]
    ELSE node

ImportDeclaration(node) ==
    IF node.source.value \in sourceList
    THEN [node EXCEPT !.type = "EmptyStatement"]
    ELSE node

\* node.directive: absent unless the parser found a directive.
Directive(node) ==
    IF "directive" \in DOMAIN node THEN node.directive ELSE Undefined

\* A variant that looks at the statement's string instead of its directive.
ExpressionStatement_AnyString(node) ==
    IF /\ node.expression.type = "Literal"
       /\ node.expression.value = JSString("use strict")
    THEN [node EXCEPT !.type = "EmptyStatement"]
    ELSE node

\* A variant whose comparison never succeeds.
ExpressionStatement_Never(node) == node

ExpressionStatement(node) ==
    IF Directive(node) = JSString("use strict")
    THEN [node EXCEPT !.type = "EmptyStatement"]
    ELSE node

assertProperties == {JSString("equal"), JSString("strictEqual"),
                     JSString("deepEqual")}

\* x?.name: undefined when x carries no name.
OptName(field, node) ==
    IF field \in DOMAIN node /\ "name" \in DOMAIN node[field]
    THEN JSString(node[field].name)
    ELSE Undefined

\* The condition of the visitor's outer if.
IsAssertCallee(callee) ==
    /\ callee.type = "MemberExpression"
    /\ OptName("object", callee) = JSString("assert")
    /\ OptName("property", callee) \in assertProperties

\* A variant that removes the first argument: args.splice(0, 1).
Splice01(args) == IF args = <<>> THEN args ELSE Tail(args)

\* args.splice(1, 1): the element at index 1, if there is one, is removed.
Splice11(args) ==
    IF Len(args) < 2 THEN args
    ELSE <<args[1]>> \o SubSeq(args, 3, Len(args))

\* A variant that renames the callee and keeps both arguments.
CallExpression_KeepsArguments(node) ==
    IF IsAssertCallee(node.callee) /\ Len(node.arguments) = 2
    THEN [node EXCEPT !.callee.object.name = "console",
                      !.callee.property.name = "log"]
    ELSE node

\* A variant without the test of the argument count.
CallExpression_AnyArity(node) ==
    IF IsAssertCallee(node.callee)
    THEN [node EXCEPT !.callee.object.name = "console",
                      !.callee.property.name = "log",
                      !.arguments = Splice11(@)]
    ELSE node

CallExpression(node) ==
    IF IsAssertCallee(node.callee) /\ Len(node.arguments) = 2
    THEN [node EXCEPT !.callee.object.name = "console",
                      !.callee.property.name = "log",
                      !.arguments = Splice11(@)]
    ELSE node

(***************************************************************************)
(* gen.generate(ast) with escodegen's default options: one statement per   *)
(* line, one indentation unit per nesting level, single-quoted strings,    *)
(* numbers in decimal, every statement ended by a semicolon.  The          *)
(* generator dispatches on node.type alone.                                *)
(***************************************************************************)
RECURSIVE generateExpression(_)
RECURSIVE generateArguments(_)
RECURSIVE generateStatement(_, _)
RECURSIVE generateBody(_, _)

generateExpression(expr) ==
    CASE expr.type = "Identifier" -> <<Name(expr.name)>>
      [] expr.type = "Literal" ->
           IF expr.value[1] = "string"
           THEN <<Str(SQ, expr.value[2])>>
           ELSE <<Num(expr.value[2])>>
      [] expr.type = "ThisExpression" -> <<Kw("this")>>
      [] expr.type = "MemberExpression" ->
           IF expr.computed
           THEN generateExpression(expr.object) \o <<Punc("[")>>
                \o generateExpression(expr.property) \o <<Punc("]")>>
           ELSE generateExpression(expr.object) \o <<Punc(".")>>
                \o generateExpression(expr.property)
      [] expr.type = "CallExpression" ->
           generateExpression(expr.callee) \o <<Punc("(")>>
           \o generateArguments(expr.arguments) \o <<Punc(")")>>

generateArguments(args) ==
    IF args = <<>> THEN <<>>
    ELSE IF Len(args) = 1 THEN generateExpression(Head(args))
    ELSE generateExpression(Head(args)) \o <<Punc(",")>>
         \o generateArguments(Tail(args))

generateStatement(stmt, depth) ==
    CASE stmt.type = "EmptyStatement" -> <<Line(depth, <<Punc(";")>>)>>
      [] stmt.type = "ExpressionStatement" ->
           <<Line(depth, generateExpression(stmt.expression)
                         \o <<Punc(";")>>)>>
      [] stmt.type = "ImportDeclaration" ->
           IF stmt.specifiers = <<>>
           THEN <<Line(depth, <<Kw("import")>>
                              \o generateExpression(stmt.source)
                              \o <<Punc(";")>>)>>
           ELSE <<Line(depth, <<Kw("import")>>
                              \o generateExpression(stmt.specifiers[1].local)
                              \o <<Kw("from")>>
                              \o generateExpression(stmt.source)
                              \o <<Punc(";")>>)>>
      [] stmt.type = "BlockStatement" ->
           <<Line(depth, <<Punc("{")>>)>>
           \o generateBody(stmt.body, depth + 1)
           \o <<Line(depth, <<Punc("}")>>)>>
      [] stmt.type = "FunctionDeclaration" ->
           <<Line(depth, <<Kw("function")>> \o generateExpression(stmt.id)
                         \o <<Punc("("), Punc(")"), Punc("{")>>)>>
           \o generateBody(stmt.body.body, depth + 1)
           \o <<Line(depth, <<Punc("}")>>)>>

generateBody(body, depth) ==
    IF body = <<>> THEN <<>>
    ELSE generateStatement(Head(body), depth)
         \o generateBody(Tail(body), depth)

EmptyLine == Line(0, <<>>)

\* generated.split('\n'): the empty string is one empty line.
Split(text) == IF text = <<>> THEN <<EmptyLine>> ELSE text

\* lines.join('\n'): no lines (and one empty line) join to the empty string.
Join(lines) == IF lines = <<>> THEN <<EmptyLine>> ELSE lines

generate(tree) == Join(generateBody(tree.body, 0))

(***************************************************************************)
(* The line filter of rewriteRolldown: line !== ';'.                       *)
(***************************************************************************)
LoneSemicolon == Line(0, <<Punc(";")>>)

\* A variant that filters nothing.
KeepLine_Every(line) == TRUE

KeepLine(line) == line # LoneSemicolon

Normalize(generated) == Join(SelectSeq(Split(generated), KeepLine))

(***************************************************************************)
(* One whole traversal, as a function of the tree.                         *)
(***************************************************************************)
Visitor(node) ==
    CASE node.type = "ImportDeclaration" -> ImportDeclaration(node)
      [] node.type = "ExpressionStatement" -> ExpressionStatement(node)
      [] node.type = "CallExpression" -> CallExpression(node)
      [] OTHER -> node

RECURSIVE simpleFrom(_, _)
simpleFrom(tree, paths) ==
    IF paths = <<>> THEN tree
    ELSE simpleFrom(Replace(tree, Head(paths),
                            Visitor(NodeAt(tree, Head(paths)))),
                    Tail(paths))

simple(tree) == simpleFrom(tree, Visits(tree))

\* A variant of rewriteEsbuild that was given rewriteRolldown's traversal.
rewriteEsbuild_Rewriting(text) == generate(simple(parse(text)))

(***************************************************************************)
(* rewriteEsbuild: parse and generate, nothing else.                       *)
(***************************************************************************)
rewriteEsbuild(text) == generate(parse(text))

(***************************************************************************)
(* The explored inputs: syntactically valid module texts, in layouts and   *)
(* spellings the generator does not itself produce (double quotes, a       *)
(* parenthesised string, hexadecimal and fractional numbers, indentation   *)
(* of its own, a function on one line).                                    *)
(***************************************************************************)
Semi == <<Punc(";")>>
Id(n) == <<Name(n)>>
Member(object, property) == object \o <<Punc("."), Name(property)>>
Computed(object, key) == object \o <<Punc("[")>> \o key \o <<Punc("]")>>

RECURSIVE CommaList(_)
CommaList(args) ==
    IF args = <<>> THEN <<>>
    ELSE IF Len(args) = 1 THEN Head(args)
    ELSE Head(args) \o <<Punc(",")>> \o CommaList(Tail(args))

Call(callee, args) ==
    callee \o <<Punc("(")>> \o CommaList(args) \o <<Punc(")")>>

Callees ==
    { Member(Id("assert"), "equal"),
      Member(Id("assert"), "strictEqual"),
      Member(Id("assert"), "deepEqual"),
      Member(Id("assert"), "ok"),
      Computed(Id("assert"), Id("equal")),
      Computed(Id("assert"), <<Str(DQ, "equal")>>),
      Member(Member(Id("x"), "assert"), "equal"),
      Member(<<Kw("this")>>, "equal"),
      Member(Id("expect"), "equal"),
      Id("compute") }

ArgPool ==
    { Id("x"),
      <<Num("0x2A")>>,
      Call(Member(Id("assert"), "deepEqual"), <<Id("y"), <<Num("1.0")>> >>) }

ArgLists == UNION { [1..n -> ArgPool] : n \in 0..MaxArgs }

\* One call statement, over every callee and argument list.
CallInputs ==
    { <<Line(0, Call(c, a) \o Semi)>> : c \in Callees, a \in ArgLists }

ImportDefault(local, q, source) ==
    <<Line(0, <<Kw("import"), Name(local), Kw("from"), Str(q, source)>>
              \o Semi)>>

FunctionOpen(name) ==
    <<Kw("function"), Name(name), Punc("("), Punc(")"), Punc("{")>>

UseStrict == <<Str(DQ, "use strict")>> \o Semi

StmtPool ==
    { ImportDefault("assert", DQ, "assert"),
      <<Line(1, <<Kw("import"), Str(SQ, "node:assert")>> \o Semi)>>,
      ImportDefault("fs", DQ, "node:fs"),
      ImportDefault("strict", SQ, "assert/strict"),
      <<Line(0, UseStrict)>>,
      <<Line(0, <<Punc("("), Str(DQ, "use strict"), Punc(")")>> \o Semi)>>,
      <<Line(0, <<Str(SQ, "other")>> \o Semi)>>,
      <<Line(2, Semi)>>,
      <<Line(0, Call(Member(Id("assert"), "equal"),
                     <<Call(Id("compute"), <<>>), <<Num("42")>> >>)
                \o Semi)>>,
      <<Line(0, FunctionOpen("f")),
        Line(1, UseStrict),
        Line(2, Call(Member(Id("assert"), "strictEqual"),
                     <<Id("x"), <<Num("1")>> >>) \o Semi),
        Line(0, <<Punc("}")>>)>>,
      <<Line(0, FunctionOpen("g") \o <<Str(SQ, "other")>> \o Semi
                \o UseStrict \o <<Punc("}")>>)>>,
      <<Line(0, FunctionOpen("h") \o Id("x") \o Semi \o UseStrict
                \o <<Punc("}")>>)>>,
      <<Line(0, <<Punc("{")>> \o UseStrict \o <<Punc("}")>>)>> }

RECURSIVE Concat(_)
Concat(texts) ==
    IF texts = <<>> THEN <<>> ELSE Head(texts) \o Concat(Tail(texts))

\* Up to MaxStmts statements of the pool, in every order.
StmtInputs ==
    { Concat(ss) : ss \in UNION { [1..n -> StmtPool] : n \in 0..MaxStmts } }

\* import assert from "assert"; "use strict"; assert.equal(compute(), 42);
Example ==
    ImportDefault("assert", DQ, "assert")
    \o <<Line(0, UseStrict)>>
    \o <<Line(0, Call(Member(Id("assert"), "equal"),
                      <<Call(Id("compute"), <<>>), <<Num("42")>> >>)
                 \o Semi)>>

Inputs == CallInputs \cup StmtInputs \cup {Example}

(***************************************************************************)
(* The state: one caller applies one of the two functions to an input and  *)
(* then to the function's own result, up to MaxPasses times.               *)
(***************************************************************************)
VARIABLES
    fn,         \* the function applied: "rewriteRolldown" or "rewriteEsbuild"
    input,      \* the text the caller started from
    code,       \* the argument of the current call
    pc,         \* where the current call stands
    parsed,     \* the tree as acorn.parse returned it in the current call
    ast,        \* the tree, as mutated so far
    todo,       \* the visits of the traversal still to come
    generated,  \* the text gen.generate returned in the current call
    out         \* the results of the calls made so far

vars == <<fn, input, code, pc, parsed, ast, todo, generated, out>>

NoTree == [type |-> "None"]

Init ==
    /\ fn \in {"rewriteRolldown", "rewriteEsbuild"}
    /\ input \in Inputs
    /\ code = input
    /\ pc = "parse"
    /\ parsed = NoTree
    /\ ast = NoTree
    /\ todo = <<>>
    /\ generated = <<>>
    /\ out = <<>>

\* rewriteRolldown, lines 10-13: the tree, and the traversal about to start.
Parse ==
    /\ fn = "rewriteRolldown"
    /\ pc = "parse"
    /\ parsed' = parse(code)
    /\ ast' = parsed'
    /\ todo' = Visits(parsed')
    /\ pc' = "walk"
    /\ UNCHANGED <<fn, input, code, generated, out>>

\* Lines 15-20: the traversal reaches an import declaration.
VisitImportDeclaration ==
    /\ pc = "walk"
    /\ todo # <<>>
    /\ NodeAt(ast, Head(todo)).type = "ImportDeclaration"
    /\ ast' = Replace(ast, Head(todo),
                      ImportDeclaration(NodeAt(ast, Head(todo))))
    /\ todo' = Tail(todo)
    /\ UNCHANGED <<fn, input, code, pc, parsed, generated, out>>

\* Lines 21-28: the traversal reaches an expression statement.
VisitExpressionStatement ==
    /\ pc = "walk"
    /\ todo # <<>>
    /\ NodeAt(ast, Head(todo)).type = "ExpressionStatement"
    /\ ast' = Replace(ast, Head(todo),
                      ExpressionStatement(NodeAt(ast, Head(todo))))
    /\ todo' = Tail(todo)
    /\ UNCHANGED <<fn, input, code, pc, parsed, generated, out>>

\* Lines 29-48: the traversal reaches a call, its callee and arguments
\* already walked.
VisitCallExpression ==
    /\ pc = "walk"
    /\ todo # <<>>
    /\ NodeAt(ast, Head(todo)).type = "CallExpression"
    /\ ast' = Replace(ast, Head(todo),
                      CallExpression(NodeAt(ast, Head(todo))))
    /\ todo' = Tail(todo)
    /\ UNCHANGED <<fn, input, code, pc, parsed, generated, out>>

\* rewriteRolldown, line 50, once the traversal has returned.
Generate ==
    /\ pc = "walk"
    /\ todo = <<>>
    /\ generated' = generate(ast)
    /\ pc' = "filter"
    /\ UNCHANGED <<fn, input, code, parsed, ast, todo, out>>

\* rewriteRolldown, lines 51-56: the filtered text is returned.
Filter ==
    /\ pc = "filter"
    /\ out' = Append(out, Normalize(generated))
    /\ pc' = "done"
    /\ UNCHANGED <<fn, input, code, parsed, ast, todo, generated>>

\* rewriteEsbuild, lines 62-68, as a whole.
Esbuild ==
    /\ fn = "rewriteEsbuild"
    /\ pc = "parse"
    /\ out' = Append(out, rewriteEsbuild(code))
    /\ pc' = "done"
    /\ UNCHANGED <<fn, input, code, parsed, ast, todo, generated>>

\* The caller applies the function to the result it just got.
Again ==
    /\ pc = "done"
    /\ Len(out) < MaxPasses
    /\ code' = out[Len(out)]
    /\ pc' = "parse"
    /\ parsed' = NoTree
    /\ ast' = NoTree
    /\ todo' = <<>>
    /\ generated' = <<>>
    /\ UNCHANGED <<fn, input, out>>

Next ==
    \/ Parse
    \/ VisitImportDeclaration
    \/ VisitExpressionStatement
    \/ VisitCallExpression
    \/ Generate
    \/ Filter
    \/ Esbuild
    \/ Again

Spec == Init /\ [][Next]_vars
(***************************************************************************)
(* Vocabulary of the properties.                                           *)
(***************************************************************************)
Rolldown == fn = "rewriteRolldown"

\* The traversal of the current call has returned.
Walked ==
    /\ Rolldown
    /\ \/ pc = "walk" /\ todo = <<>>
       \/ pc \in {"filter", "done"}

\* The current call of rewriteRolldown has returned its result.
Returned == Rolldown /\ pc = "done"

Result == out[Len(out)]

Paths(tree) ==
    LET order == PostOrder(tree)
    IN  { order[i] : i \in 1..Len(order) }

NameOf(node) == IF "name" \in DOMAIN node THEN node.name ELSE ""

AssertMembers == {"equal", "strictEqual", "deepEqual"}

\* A two-argument call whose callee is a member access with an object named
\* assert and a property named equal, strictEqual or deepEqual.
NamedAssertCall(node) ==
    /\ node.type = "CallExpression"
    /\ node.callee.type = "MemberExpression"
    /\ NameOf(node.callee.object) = "assert"
    /\ NameOf(node.callee.property) \in AssertMembers
    /\ Len(node.arguments) = 2

\* The same, written assert.<member>(a, b): the access is not computed and
\* its object is the identifier itself.
DottedAssertCall(node) ==
    /\ NamedAssertCall(node)
    /\ ~node.callee.computed
    /\ node.callee.object.type = "Identifier"

ConsoleLog ==
    [type |-> "MemberExpression",
     object |-> [type |-> "Identifier", name |-> "console"],
     property |-> [type |-> "Identifier", name |-> "log"],
     computed |-> FALSE]

\* The subtree holds a call that the rewrite is about.
HoldsAssertCall(node) == \E q \in Paths(node) : NamedAssertCall(NodeAt(node, q))

IsUseStrictString(node) ==
    /\ node.type = "ExpressionStatement"
    /\ node.expression.type = "Literal"
    /\ node.expression.value = JSString("use strict")

IsUseStrictDirective(node) ==
    /\ node.type = "ExpressionStatement"
    /\ Directive(node) = JSString("use strict")

IsAssertImport(node) ==
    /\ node.type = "ImportDeclaration"
    /\ node.source.value[2] \in {"assert", "node:assert"}

Count(seq, Test(_)) == Cardinality({ i \in 1..Len(seq) : Test(seq[i]) })

(***************************************************************************)
(* C1.  After the traversal, every call assert.equal / assert.strictEqual  *)
(* / assert.deepEqual with exactly two arguments, at any depth and also    *)
(* inside the first argument of another rewritten call, has become a call  *)
(* of console.log with exactly one argument, the original first argument   *)
(* (itself rewritten where it holds such a call), and no such              *)
(* two-argument assert call is left in the tree.                           *)
(***************************************************************************)
C1_AssertCallsBecomeConsoleLog ==
    Walked =>
      \A p \in Paths(ast) :
        LET o == NodeAt(parsed, p)
            n == NodeAt(ast, p)
        IN  /\ ~DottedAssertCall(n)
            /\ DottedAssertCall(o) =>
                 /\ n.type = "CallExpression"
                 /\ n.callee = ConsoleLog
                 /\ Len(n.arguments) = 1
                 /\ n.arguments[1].type = o.arguments[1].type
                 /\ ~HoldsAssertCall(o.arguments[1]) =>
                      n.arguments = <<o.arguments[1]>>
                 /\ DottedAssertCall(o.arguments[1]) =>
                      n.arguments[1].callee = ConsoleLog

\* A rewritten call whose first argument was itself an assert call and
\* whose second argument held one too.
C1_Witness ==
    /\ Walked
    /\ \E p \in Paths(ast) :
         /\ DottedAssertCall(NodeAt(parsed, p))
         /\ DottedAssertCall(NodeAt(parsed, p).arguments[1])
         /\ DottedAssertCall(NodeAt(parsed, p).arguments[2])
         /\ NodeAt(ast, p).callee = ConsoleLog

(***************************************************************************)
(* C2.  A call that is not a two-argument call of assert.equal /           *)
(* strictEqual / deepEqual (another argument count, another member name,   *)
(* an object not named assert, or no member access at all) keeps the       *)
(* names of its callee, its argument count and its arguments in order;     *)
(* each argument is untouched unless it holds a rewritten call itself.     *)
(***************************************************************************)
C2_NonMatchingCallsPreserved ==
    Walked =>
      \A p \in Paths(ast) :
        LET o == NodeAt(parsed, p)
            n == NodeAt(ast, p)
        IN  (o.type = "CallExpression" /\ ~NamedAssertCall(o)) =>
              /\ n.type = "CallExpression"
              /\ n.callee = o.callee
              /\ Len(n.arguments) = Len(o.arguments)
              /\ \A i \in 1..Len(o.arguments) :
                   /\ n.arguments[i].type = o.arguments[i].type
                   /\ ~HoldsAssertCall(o.arguments[i]) =>
                        n.arguments[i] = o.arguments[i]

\* A three-argument assert.equal, a one-argument assert.strictEqual or an
\* assert.ok call went through the traversal.
C2_Witness ==
    /\ Walked
    /\ \E p \in Paths(ast) :
         LET o == NodeAt(parsed, p)
         IN  /\ o.type = "CallExpression"
             /\ o.callee.type = "MemberExpression"
             /\ NameOf(o.callee.object) = "assert"
             /\ NameOf(o.callee.property) = "equal"
             /\ Len(o.arguments) = 3
             /\ NodeAt(ast, p) = o

(***************************************************************************)
(* C3.  The text rewriteRolldown returns holds no import declaration of    *)
(* "assert" or "node:assert", and holds every other import declaration of  *)
(* its argument, unchanged (local name and source) and in the original     *)
(* order.                                                                  *)
(***************************************************************************)
ImportsOf(tree) ==
    SelectSeq(tree.body, LAMBDA st : st.type = "ImportDeclaration")

ImportSummary(imports) ==
    [i \in 1..Len(imports) |->
        <<[j \in 1..Len(imports[i].specifiers) |->
              imports[i].specifiers[j].local.name],
          imports[i].source.value>>]

C3_AssertImportsElided ==
    Returned =>
      LET kept == SelectSeq(ImportsOf(parsed),
                            LAMBDA st : ~IsAssertImport(st))
          left == ImportsOf(parse(Result))
      IN  /\ \A i \in 1..Len(left) : ~IsAssertImport(left[i])
          /\ ImportSummary(left) = ImportSummary(kept)

\* The argument imported node:assert without specifiers and another module.
C3_Witness ==
    /\ Returned
    /\ \E i, j \in 1..Len(parsed.body) :
         /\ IsAssertImport(parsed.body[i])
         /\ parsed.body[i].specifiers = <<>>
         /\ parsed.body[j].type = "ImportDeclaration"
         /\ ~IsAssertImport(parsed.body[j])

(***************************************************************************)
(* C4.  Every expression statement whose directive is "use strict", first  *)
(* in the module or in the prologue of a function body, is an empty        *)
(* statement after the traversal, and no line of the returned text comes   *)
(* from it: the 'use strict' lines of the result are as many as the        *)
(* "use strict" strings of the argument that are no directive.  Every      *)
(* other expression statement keeps its kind.                              *)
(***************************************************************************)
UseStrictLine(line) == line.toks = <<Str(SQ, "use strict"), Punc(";")>>

C4_StrictDirectivesElided ==
    /\ Walked =>
         \A p \in Paths(parsed) :
           NodeAt(parsed, p).type = "ExpressionStatement" =>
             /\ p \in Paths(ast)
             /\ NodeAt(ast, p).type =
                  IF IsUseStrictDirective(NodeAt(parsed, p))
                  THEN "EmptyStatement"
                  ELSE "ExpressionStatement"
    /\ Returned =>
         Count(Result, UseStrictLine) =
           Cardinality({ p \in Paths(parsed) :
                           /\ IsUseStrictString(NodeAt(parsed, p))
                           /\ ~IsUseStrictDirective(NodeAt(parsed, p)) })

\* The argument held a "use strict" directive in a function body and a
\* "use strict" string that is no directive.
C4_Witness ==
    /\ Returned
    /\ \E p, q \in Paths(parsed) :
         /\ Len(p) > 1
         /\ IsUseStrictDirective(NodeAt(parsed, p))
         /\ IsUseStrictString(NodeAt(parsed, q))
         /\ ~IsUseStrictDirective(NodeAt(parsed, q))

(***************************************************************************)
(* C5.  The returned text is the generated text without the lines whose    *)
(* trimmed content is ";" (whatever their indentation), every other line   *)
(* kept as it is and in order.                                             *)
(***************************************************************************)
TrimmedIsSemicolon(line) == line.toks = <<Punc(";")>>

C5_TrimmedSemicolonLinesRemoved ==
    Returned =>
      Result = Join(SelectSeq(Split(generated),
                              LAMBDA line : ~TrimmedIsSemicolon(line)))

(***************************************************************************)
(* C6.  As claimed: rewriteRolldown of the module                          *)
(*   import assert from "assert"; "use strict"; assert.equal(compute(), 42);*)
(* is the one line console.log(compute());                                 *)
(***************************************************************************)
ConsoleLogCompute ==
    Line(0, Call(Member(Id("console"), "log"), <<Call(Id("compute"), <<>>)>>)
            \o Semi)

C6_ExampleYieldsOnlyConsoleLog ==
    (Rolldown /\ input = Example /\ Len(out) >= 1) =>
      out[1] = <<ConsoleLogCompute>>

(***************************************************************************)
(* C6, amended.  The result is the two lines 'use strict'; and             *)
(* console.log(compute()); -- the import line and every ";" line are gone, *)
(* the call is rewritten, and the string statement, which follows the      *)
(* import and so is no directive, is kept.                                 *)
(***************************************************************************)
C6_ExampleKeepsStringStatement ==
    (Rolldown /\ input = Example /\ Len(out) >= 1) =>
      out[1] = <<Line(0, <<Str(SQ, "use strict")>> \o Semi),
                 ConsoleLogCompute>>

C6_Witness == Rolldown /\ input = Example /\ Len(out) = 1 /\ pc = "done"

(***************************************************************************)
(* C7.  rewriteEsbuild is parse followed by generate, and applying it to   *)
(* its own result gives that result again.                                 *)
(***************************************************************************)
C7_EsbuildFixedPoint ==
    fn = "rewriteEsbuild" =>
      /\ Len(out) >= 1 => out[1] = generate(parse(input))
      /\ \A i \in 2..Len(out) : out[i] = out[i - 1]

\* A second application to a result that differs from the argument.
C7_Witness ==
    /\ fn = "rewriteEsbuild"
    /\ Len(out) >= 2
    /\ out[1] # input

(***************************************************************************)
(* C8.  During and after the traversal every node still in the tree is     *)
(* where the parser put it and is what the parser made it (statement       *)
(* lists keep their lengths and their order), except that an import of     *)
(* assert / node:assert or a "use strict" directive has the kind           *)
(* EmptyStatement and nothing else changed, a two-argument assert call has *)
(* one argument, and the object and the property of such a call's callee   *)
(* are named console and log.                                              *)
(***************************************************************************)
ListLength(node, field) ==
    IF field \in DOMAIN node /\ node.type # "FunctionDeclaration"
    THEN Len(node[field])
    ELSE 0

\* What a node is apart from its children.
Own(node) ==
    [type |-> node.type,
     name |-> NameOf(node),
     value |-> IF "value" \in DOMAIN node THEN node.value ELSE Undefined,
     raw |-> IF "raw" \in DOMAIN node THEN node.raw ELSE <<>>,
     computed |-> IF "computed" \in DOMAIN node THEN node.computed ELSE FALSE,
     directive |-> Directive(node),
     start |-> IF "start" \in DOMAIN node THEN node.start ELSE 0,
     body |-> ListLength(node, "body"),
     specifiers |-> ListLength(node, "specifiers"),
     arguments |-> ListLength(node, "arguments")]

Front(seq) == SubSeq(seq, 1, Len(seq) - 1)

\* The node at path p is the object (the property) of the callee of a
\* two-argument assert call.
CalleeNameOfAssertCall(p, field) ==
    /\ Len(p) >= 2
    /\ p[Len(p)] = <<field, 0>>
    /\ p[Len(p) - 1] = <<"callee", 0>>
    /\ NamedAssertCall(NodeAt(parsed, Front(Front(p))))

C9_ComputedCalleeNotRewritten ==
    Walked =>
      \A p \in Paths(ast) :
        LET o == NodeAt(parsed, p)
            n == NodeAt(ast, p)
        IN  ( /\ o.type = "CallExpression"
              /\ Len(o.arguments) = 2
              /\ o.callee.type = "MemberExpression"
              /\ o.callee.computed \/ o.callee.object.type # "Identifier" ) =>
              /\ n.callee = o.callee
              /\ Len(n.arguments) = 2

(***************************************************************************)
(* C10.  As claimed: rewriteRolldown applied to its own result returns     *)
(* that result.                                                            *)
(***************************************************************************)
C10_RolldownFixedPoint ==
    Rolldown => \A i \in 2..Len(out) : out[i] = out[i - 1]

(***************************************************************************)
(* C10, amended.  rewriteRolldown applied to its own result returns that   *)
(* result exactly when the result, parsed again, has no "use strict"       *)
(* directive: a "use strict" string that was no directive in the argument  *)
(* (it followed an import or a ";", or stood in parentheses) and heads the *)
(* result is elided by the second application only.                        *)
(***************************************************************************)
HasUseStrictDirective(text) ==
    LET tree == parse(text)
    IN  \E p \in Paths(tree) : IsUseStrictDirective(NodeAt(tree, p))

C10_FixedPointUnlessNewDirective ==
    Rolldown =>
      \A i \in 2..Len(out) :
        (out[i] = out[i - 1]) <=> ~HasUseStrictDirective(out[i - 1])

\* A second application that found nothing to do after a first one that
\* elided an import and a directive and rewrote a call.
C10_Witness ==
    /\ Rolldown
    /\ Len(out) >= 2
    /\ out[2] = out[1]
    /\ Len(out[1]) < Len(input)
    /\ \E i \in 1..Len(out[1]) :
         /\ out[1][i].toks # <<>>
         /\ out[1][i].toks[1] = Name("console")

=============================================================================
